---- MODULE Spec2Model ----
(***************************************************************************)
(* The inference process supervisor of vm_api_server.py: the module-level  *)
(* dictionary running_inference, the OS process table it is checked        *)
(* against, and the Flask handlers start_inference, get_inference_status,  *)
(* stop_inference, list_running_inference, delete_dataset and              *)
(* preprocess_images, which creates the datasets.                          *)
(*                                                                         *)
(* app.run() serves each request on its own thread, and no handler takes a *)
(* lock, so a handler is modelled statement by statement: one action per   *)
(* statement that reads or writes the dictionary, the process table or the *)
(* dataset directory.  Handlers of different threads interleave between    *)
(* those statements.  Workers are separate OS processes and can exit at    *)
(* any moment.                                                             *)
(*                                                                         *)
(* A process id is never handed out twice, and psutil.pid_exists(pid) is   *)
(* read as "pid is in the process table".                                  *)
(***************************************************************************)
EXTENDS Integers, Sequences, FiniteSets, TLC

\* Bounds of the model.
MaxPid == 2          \* how many workers can be launched in one run
MaxCpu == 1          \* cpu_percent samples range over 0..MaxCpu
MaxMem == 1          \* memory_mb samples range over 1..MaxMem
MaxClock == 2        \* the wall clock runs over the seconds 1..MaxClock

Datasets == {"d1", "d2"}
Threads == {"t1", "t2"}
Ops == {"start", "status", "stop", "list", "delete", "create"}

VARIABLES
    running_inference,  \* dataset id -> [pid]; the dictionary of line 26
    alive,              \* the pids in the OS process table
    owner,              \* owner[p]: the dataset id worker p was launched for
    dirs,               \* dataset ids whose directory exists under DATA_DIR
    bundles,            \* dataset ids whose preprocessing_bundle.pkl exists
    pc,                 \* per thread: the statement its handler is at
    loc,                \* per thread: the handler's local variables
    res,                \* per thread: the response being returned
    hist,               \* per thread: what the call has seen and done so far
    lastCall,           \* the call that returned most recently
    serial,             \* TRUE: requests are served one at a time
    now,                \* the second the wall clock showed when last read
    signalled           \* the pids in the process table that a stop call
                        \* has sent a signal to

vars == <<running_inference, alive, owner, dirs, bundles, pc, loc, res, hist,
          lastCall, serial, now, signalled>>

NoLoc == [op |-> "none", d |-> "none", pid |-> 0,
          active |-> {}, dead_keys |-> {}, visited |-> {}, used |-> 0]
NoRes == [status |-> "none", pid |-> 0, cpu |-> 0, mem |-> 0, list |-> {}]
NoCall == [op |-> "none", d |-> "none", status |-> "none"]
EmptyReg == [x \in {} |-> [pid |-> 0]]
NoHist == [reg0 |-> EmptyReg, dead0 |-> {}, prev |-> NoCall, sent |-> <<>>,
           launched |-> {}, inserted |-> {}, removed |-> {}, checked |-> {},
           logfail |-> FALSE, spawnfail |-> FALSE, samplefail |-> FALSE,
           popens |-> 0, steps |-> 0, waits |-> 0, woke |-> "none"]

\* ---------------------------------------------------------------- helpers

\* dataset_id in running_inference
Has(d) == d \in DOMAIN running_inference

\* A del that empties the dictionary.
Cleared(reg, d) == [x \in {} |-> reg[d]]

\* del running_inference[d]
Without(reg, d) == [x \in (DOMAIN reg) \ {d} |-> reg[x]]

\* running_inference[d] = record
With(reg, d, rec) == [x \in (DOMAIN reg) \cup {d} |-> IF x = d THEN rec ELSE reg[x]]

\* psutil.pid_exists(pid)
pid_exists(p) == p \in alive

\* the pids launched so far
Launched == 1..Len(owner)

\* return jsonify(...): the handler is done, its response is r
Respond(t, r) ==
    /\ pc' = [pc EXCEPT ![t] = "done"]
    /\ res' = [res EXCEPT ![t] = r]

\* the handler's outermost "except Exception": a 500 response
Raise(t) == Respond(t, [NoRes EXCEPT !.status = "error"])

Goto(t, label) ==
    /\ pc' = [pc EXCEPT ![t] = label]
    /\ UNCHANGED res

FirstPc(o) ==
    CASE o = "start" -> "start_in"
      [] o = "status" -> "status_in"
      [] o = "stop" -> "stop_in"
      [] o = "list" -> "list_next"
      [] o = "delete" -> "delete_exists"
      [] o = "create" -> "create_id"

Idle == \A u \in Threads : pc[u] = "idle"

\* The thread that takes the next request: the first one that is free.
\* Which thread serves a request makes no difference to the handler.
FirstFree(t) == t = "t1" \/ pc["t1"] # "idle"

\* The pairs of consecutive calls the properties below speak about: the
\* call that has just returned is remembered for a call that follows it only
\* for these.
Watched == {<<"stop", "status">>, <<"start", "status">>, <<"start", "list">>,
            <<"status", "start">>, <<"delete", "status">>,
            <<"delete", "start">>}

\* ------------------------------------------------------------ environment

\* The server has just come up: no worker has been launched, and DATA_DIR
\* holds none of the datasets this run will create (their ids are made from
\* clock seconds that have yet to come).
InitBase ==
    /\ running_inference = EmptyReg
    /\ alive = {}
    /\ owner = <<>>
    /\ dirs = {}
    /\ bundles = {}
    /\ pc = [t \in Threads |-> "idle"]
    /\ loc = [t \in Threads |-> NoLoc]
    /\ res = [t \in Threads |-> NoRes]
    /\ hist = [t \in Threads |-> NoHist]
    /\ lastCall = NoCall
    /\ now = 1
    /\ signalled = {}

\* The server as app.run() runs it: one thread per request.
Init == InitBase /\ serial = FALSE

\* The same server with its requests arriving one after the other.
SeqInit == InitBase /\ serial = TRUE

\* Starts in flight; each may still launch a worker.
Starting == {u \in Threads : loc[u].op = "start" /\ hist[u].launched = {}
                               /\ pc[u] # "done"}

\* A request arrives and Flask calls its handler on thread t.  The list
\* handler's first statements (lines 627-630) create the two local lists and
\* the dictionary iterator, which remembers the dictionary's size.
\* The snapshots of the call's start (reg0, dead0, prev) and lastCall are
\* history kept for the serial server only: what they are compared with, the
\* end of the same call or the call that follows, has a meaning only there.
\* lastCall remembers start, stop, status and delete calls; after any other
\* call it is NoCall.
Request(t, o, d) ==
    /\ pc[t] = "idle"
    /\ FirstFree(t)
    /\ serial => Idle
    /\ (o \in {"list", "create"}) <=> (d = "none")
    /\ (o = "start") => Len(owner) + Cardinality(Starting) < MaxPid
    /\ (o = "create") => now <= MaxClock
    /\ pc' = [pc EXCEPT ![t] = FirstPc(o)]
    /\ loc' = [loc EXCEPT ![t] =
                 [NoLoc EXCEPT !.op = o, !.d = d,
                               !.used = IF o = "list"
                                        THEN Cardinality(DOMAIN running_inference)
                                        ELSE 0]]
    /\ hist' = [hist EXCEPT ![t] =
                 IF serial
                 THEN [NoHist EXCEPT !.reg0 = running_inference,
                                     !.dead0 = Launched \ alive,
                                     !.prev = IF <<lastCall.op, o>> \in Watched
                                              THEN lastCall
                                              ELSE NoCall]
                 ELSE NoHist]
    /\ UNCHANGED <<running_inference, alive, owner, dirs, bundles, res,
                   lastCall, serial, now, signalled>>

\* The response leaves the server; the thread is free for the next request.
Return(t) ==
    /\ pc[t] = "done"
    /\ pc' = [pc EXCEPT ![t] = "idle"]
    /\ lastCall' = IF serial
                      /\ loc[t].op \in {"start", "stop", "status", "delete"}
                   THEN [op |-> loc[t].op, d |-> loc[t].d, status |-> res[t].status]
                   ELSE NoCall
    /\ loc' = [loc EXCEPT ![t] = NoLoc]
    /\ res' = [res EXCEPT ![t] = NoRes]
    /\ hist' = [hist EXCEPT ![t] = NoHist]
    /\ UNCHANGED <<running_inference, alive, owner, dirs, bundles, serial, now,
                   signalled>>

\* A worker process exits on its own or after a signal.
WorkerExit(p) ==
    /\ p \in alive
    /\ alive' = alive \ {p}
    /\ signalled' = signalled \ {p}
    /\ UNCHANGED <<running_inference, owner, dirs, bundles, pc, loc, res,
                   hist, lastCall, serial, now>>

\* --------------------------------------------------------- start_inference

\* line 425: if dataset_id in running_inference
StartIn(t) ==
    /\ pc[t] = "start_in"
    /\ Goto(t, IF Has(loc[t].d) THEN "start_pid" ELSE "start_dir")
    /\ UNCHANGED <<running_inference, alive, owner, dirs, bundles, loc, hist,
                   lastCall, serial, now, signalled>>

\* line 426: pid = running_inference[dataset_id]['pid'] (KeyError once another
\* handler has deleted the key)
StartPid(t) ==
    /\ pc[t] = "start_pid"
    /\ IF Has(loc[t].d)
       THEN /\ loc' = [loc EXCEPT ![t].pid = running_inference[loc[t].d].pid]
            /\ Goto(t, "start_alive")
       ELSE /\ Raise(t)
            /\ UNCHANGED loc
    /\ UNCHANGED <<running_inference, alive, owner, dirs, bundles, hist,
                   lastCall, serial, now, signalled>>

\* A start that never answers 409: it treats every recorded worker as dead.
StartAliveIgnored(t) ==
    /\ pc[t] = "start_alive"
    /\ Goto(t, "start_del")
    /\ hist' = [hist EXCEPT ![t].checked = @ \cup {loc[t].pid}]
    /\ UNCHANGED <<running_inference, alive, owner, dirs, bundles, loc,
                   lastCall, serial, now, signalled>>

\* lines 428-434: if psutil.pid_exists(pid): return 409 already_running
StartAlive(t) ==
    /\ pc[t] = "start_alive"
    /\ IF pid_exists(loc[t].pid)
       THEN Respond(t, [NoRes EXCEPT !.status = "already_running",
                                     !.pid = loc[t].pid])
       ELSE Goto(t, "start_del")
    /\ hist' = [hist EXCEPT ![t].checked = @ \cup {loc[t].pid}]
    /\ UNCHANGED <<running_inference, alive, owner, dirs, bundles, loc,
                   lastCall, serial, now, signalled>>

\* line 437: del running_inference[dataset_id]
StartDel(t) ==
    /\ pc[t] = "start_del"
    /\ IF Has(loc[t].d)
       THEN /\ running_inference' = Without(running_inference, loc[t].d)
            /\ hist' = [hist EXCEPT ![t].removed =
                          @ \cup {running_inference[loc[t].d].pid}]
            /\ Goto(t, "start_dir")
       ELSE /\ Raise(t)
            /\ UNCHANGED <<running_inference, hist>>
    /\ UNCHANGED <<alive, owner, dirs, bundles, loc, lastCall, serial, now, signalled>>

\* lines 439-442: if not os.path.exists(dataset_path): return 404
StartDir(t) ==
    /\ pc[t] = "start_dir"
    /\ IF loc[t].d \in dirs
       THEN Goto(t, "start_bundle")
       ELSE Respond(t, [NoRes EXCEPT !.status = "dataset_not_found"])
    /\ UNCHANGED <<running_inference, alive, owner, dirs, bundles, loc, hist,
                   lastCall, serial, now, signalled>>

\* A start that does not look for the bundle.
StartBundleUnchecked(t) ==
    /\ pc[t] = "start_bundle"
    /\ Goto(t, "start_open")
    /\ UNCHANGED <<running_inference, alive, owner, dirs, bundles, loc, hist,
                   lastCall, serial, now, signalled>>

\* lines 445-451: if not os.path.exists(bundle_path): return 404
StartBundle(t) ==
    /\ pc[t] = "start_bundle"
    /\ IF loc[t].d \in bundles
       THEN Goto(t, "start_open")
       ELSE Respond(t, [NoRes EXCEPT !.status = "bundle_not_found"])
    /\ UNCHANGED <<running_inference, alive, owner, dirs, bundles, loc, hist,
                   lastCall, serial, now, signalled>>

\* lines 473-474: open(log_path, 'w').  It raises when the dataset directory
\* is gone, and can raise on its own (permissions, disk full); either way the
\* outer except answers 500 before anything is spawned.
StartOpen(t) ==
    /\ pc[t] = "start_open"
    /\ \E ok \in BOOLEAN :
         IF ok /\ loc[t].d \in dirs
         THEN /\ Goto(t, "start_popen")
              /\ UNCHANGED hist
         ELSE /\ Raise(t)
              /\ hist' = [hist EXCEPT ![t].logfail = TRUE]
    /\ UNCHANGED <<running_inference, alive, owner, dirs, bundles, loc,
                   lastCall, serial, now, signalled>>

\* A start that tries the spawn again after it raised.
StartPopenRetried(t) ==
    /\ pc[t] = "start_popen"
    /\ \E ok \in BOOLEAN :
         IF ok
         THEN /\ owner' = Append(owner, loc[t].d)
              /\ alive' = alive \cup {Len(owner) + 1}
              /\ loc' = [loc EXCEPT ![t].pid = Len(owner) + 1]
              /\ hist' = [hist EXCEPT ![t].launched = @ \cup {Len(owner) + 1},
                                      ![t].popens = @ + 1]
              /\ Goto(t, "start_put")
         ELSE /\ hist' = [hist EXCEPT ![t].spawnfail = TRUE,
                                      ![t].popens = @ + 1]
              /\ Goto(t, "start_popen")
              /\ UNCHANGED <<owner, alive, loc>>
    /\ UNCHANGED <<running_inference, dirs, bundles, lastCall, serial, now, signalled>>

\* lines 475-483: subprocess.Popen(..., preexec_fn=os.setsid).  The spawn
\* either raises (500, nothing launched) or creates a new process that leads
\* its own process group.
StartPopen(t) ==
    /\ pc[t] = "start_popen"
    /\ \E ok \in BOOLEAN :
         IF ok
         THEN /\ owner' = Append(owner, loc[t].d)
              /\ alive' = alive \cup {Len(owner) + 1}
              /\ loc' = [loc EXCEPT ![t].pid = Len(owner) + 1]
              /\ hist' = [hist EXCEPT ![t].launched = @ \cup {Len(owner) + 1},
                                      ![t].popens = @ + 1]
              /\ Goto(t, "start_put")
         ELSE /\ Raise(t)
              /\ hist' = [hist EXCEPT ![t].spawnfail = TRUE,
                                      ![t].popens = @ + 1]
              /\ UNCHANGED <<owner, alive, loc>>
    /\ UNCHANGED <<running_inference, dirs, bundles, lastCall, serial, now, signalled>>

\* lines 486-501: running_inference[dataset_id] = {...}; return "started"
StartPut(t) ==
    /\ pc[t] = "start_put"
    /\ running_inference' =
         With(running_inference, loc[t].d, [pid |-> loc[t].pid])
    /\ hist' = [hist EXCEPT ![t].inserted = @ \cup {loc[t].pid}]
    /\ Respond(t, [NoRes EXCEPT !.status = "started", !.pid = loc[t].pid])
    /\ UNCHANGED <<alive, owner, dirs, bundles, loc, lastCall, serial, now, signalled>>

\* ---------------------------------------------------- get_inference_status

\* lines 518-522: if dataset_id not in running_inference: return not_running
StatusIn(t) ==
    /\ pc[t] = "status_in"
    /\ IF Has(loc[t].d)
       THEN Goto(t, "status_info")
       ELSE Respond(t, [NoRes EXCEPT !.status = "not_running"])
    /\ UNCHANGED <<running_inference, alive, owner, dirs, bundles, loc, hist,
                   lastCall, serial, now, signalled>>

\* lines 524-525: info = running_inference[dataset_id]; pid = info['pid']
StatusInfo(t) ==
    /\ pc[t] = "status_info"
    /\ IF Has(loc[t].d)
       THEN /\ loc' = [loc EXCEPT ![t].pid = running_inference[loc[t].d].pid]
            /\ Goto(t, "status_alive")
       ELSE /\ Raise(t)
            /\ UNCHANGED loc
    /\ UNCHANGED <<running_inference, alive, owner, dirs, bundles, hist,
                   lastCall, serial, now, signalled>>

\* line 528: if not psutil.pid_exists(pid)
StatusAlive(t) ==
    /\ pc[t] = "status_alive"
    /\ Goto(t, IF pid_exists(loc[t].pid) THEN "status_sample" ELSE "status_del")
    /\ hist' = [hist EXCEPT ![t].checked = @ \cup {loc[t].pid}]
    /\ UNCHANGED <<running_inference, alive, owner, dirs, bundles, loc,
                   lastCall, serial, now, signalled>>

\* A status that reports a dead worker and leaves its record in place.
StatusDelKept(t) ==
    /\ pc[t] = "status_del"
    /\ Respond(t, [NoRes EXCEPT !.status = "stopped"])
    /\ UNCHANGED <<running_inference, alive, owner, dirs, bundles, loc, hist,
                   lastCall, serial, now, signalled>>

\* lines 529-534: del running_inference[dataset_id]; return stopped
StatusDel(t) ==
    /\ pc[t] = "status_del"
    /\ IF Has(loc[t].d)
       THEN /\ running_inference' = Without(running_inference, loc[t].d)
            /\ hist' = [hist EXCEPT ![t].removed =
                          @ \cup {running_inference[loc[t].d].pid}]
            /\ Respond(t, [NoRes EXCEPT !.status = "stopped"])
       ELSE /\ Raise(t)
            /\ UNCHANGED <<running_inference, hist>>
    /\ UNCHANGED <<alive, owner, dirs, bundles, loc, lastCall, serial, now, signalled>>

\* A status without the inner try/except: a sampling failure goes to the
\* handler's outer except.
StatusSampleUncaught(t) ==
    /\ pc[t] = "status_sample"
    /\ \E ok \in BOOLEAN, c \in 0..MaxCpu, m \in 1..MaxMem :
         IF ok /\ pid_exists(loc[t].pid)
         THEN /\ Respond(t, [NoRes EXCEPT !.status = "running",
                                          !.pid = loc[t].pid,
                                          !.cpu = c, !.mem = m])
              /\ UNCHANGED hist
         ELSE /\ Raise(t)
              /\ hist' = [hist EXCEPT ![t].samplefail = TRUE]
    /\ UNCHANGED <<running_inference, alive, owner, dirs, bundles, loc,
                   lastCall, serial, now, signalled>>

\* lines 537-554: psutil.Process(pid), cpu_percent, memory_info inside a bare
\* try/except that sets both values to 0; then return running.  The sampling
\* raises when the process is gone, and can raise on its own (access denied).
StatusSample(t) ==
    /\ pc[t] = "status_sample"
    /\ \E ok \in BOOLEAN, c \in 0..MaxCpu, m \in 1..MaxMem :
         IF ok /\ pid_exists(loc[t].pid)
         THEN /\ Respond(t, [NoRes EXCEPT !.status = "running",
                                          !.pid = loc[t].pid,
                                          !.cpu = c, !.mem = m])
              /\ UNCHANGED hist
         ELSE /\ Respond(t, [NoRes EXCEPT !.status = "running",
                                          !.pid = loc[t].pid])
              /\ hist' = [hist EXCEPT ![t].samplefail = TRUE]
    /\ UNCHANGED <<running_inference, alive, owner, dirs, bundles, loc,
                   lastCall, serial, now, signalled>>

\* ---------------------------------------------------------- stop_inference

\* The stop handler on thread t has run one more statement; h is what else
\* the statement adds to the call's history.
Stepped(t, h) == [hist EXCEPT ![t] = [h EXCEPT !.steps = @ + 1]]

\* lines 571-576: if dataset_id not in running_inference: return 404
StopIn(t) ==
    /\ pc[t] = "stop_in"
    /\ IF Has(loc[t].d)
       THEN Goto(t, "stop_info")
       ELSE Respond(t, [NoRes EXCEPT !.status = "not_running"])
    /\ hist' = Stepped(t, hist[t])
    /\ UNCHANGED <<running_inference, alive, owner, dirs, bundles, loc,
                   lastCall, serial, now, signalled>>

\* lines 578-579: info = running_inference[dataset_id]; pid = info['pid']
StopInfo(t) ==
    /\ pc[t] = "stop_info"
    /\ IF Has(loc[t].d)
       THEN /\ loc' = [loc EXCEPT ![t].pid = running_inference[loc[t].d].pid]
            /\ Goto(t, "stop_alive")
       ELSE /\ Raise(t)
            /\ UNCHANGED loc
    /\ hist' = Stepped(t, hist[t])
    /\ UNCHANGED <<running_inference, alive, owner, dirs, bundles,
                   lastCall, serial, now, signalled>>

\* A stop that signals without looking whether the worker is there.
StopAliveSkipped(t) ==
    /\ pc[t] = "stop_alive"
    /\ Goto(t, "stop_sigint")
    /\ hist' = Stepped(t, hist[t])
    /\ UNCHANGED <<running_inference, alive, owner, dirs, bundles, loc,
                   lastCall, serial, now, signalled>>

\* line 582: if not psutil.pid_exists(pid)
StopAlive(t) ==
    /\ pc[t] = "stop_alive"
    /\ Goto(t, IF pid_exists(loc[t].pid) THEN "stop_sigint" ELSE "stop_reap")
    /\ hist' = Stepped(t, [hist[t] EXCEPT !.checked = @ \cup {loc[t].pid}])
    /\ UNCHANGED <<running_inference, alive, owner, dirs, bundles, loc,
                   lastCall, serial, now, signalled>>

\* lines 583-588: del running_inference[dataset_id]; return already_stopped
StopReap(t) ==
    /\ pc[t] = "stop_reap"
    /\ IF Has(loc[t].d)
       THEN /\ running_inference' = Without(running_inference, loc[t].d)
            /\ hist' = Stepped(t, [hist[t] EXCEPT !.removed =
                          @ \cup {running_inference[loc[t].d].pid}])
            /\ Respond(t, [NoRes EXCEPT !.status = "already_stopped"])
       ELSE /\ Raise(t)
            /\ hist' = Stepped(t, hist[t])
            /\ UNCHANGED running_inference
    /\ UNCHANGED <<alive, owner, dirs, bundles, loc, lastCall, serial, now, signalled>>

\* A stop whose except clause returns instead of falling through to line 604.
StopSigintReturning(t) ==
    /\ pc[t] = "stop_sigint"
    /\ IF pid_exists(loc[t].pid)
       THEN /\ hist' = Stepped(t, [hist[t] EXCEPT !.sent = Append(@, "SIGINT")])
            /\ signalled' = signalled \cup {loc[t].pid}
            /\ Goto(t, "stop_sleep")
       ELSE /\ Respond(t, [NoRes EXCEPT !.status = "stopped"])
            /\ hist' = Stepped(t, hist[t])
            /\ UNCHANGED signalled
    /\ UNCHANGED <<running_inference, alive, owner, dirs, bundles, loc,
                   lastCall, serial, now>>

\* line 592: os.killpg(os.getpgid(pid), signal.SIGINT).  os.getpgid raises
\* when the process is gone; the bare except of line 601 swallows it and the
\* handler goes on at line 604.  Otherwise the group gets SIGINT and the
\* handler sleeps (line 595).
StopSigint(t) ==
    /\ pc[t] = "stop_sigint"
    /\ IF pid_exists(loc[t].pid)
       THEN /\ hist' = Stepped(t, [hist[t] EXCEPT !.sent = Append(@, "SIGINT")])
            /\ signalled' = signalled \cup {loc[t].pid}
            /\ Goto(t, "stop_sleep")
       ELSE /\ Goto(t, "stop_del")
            /\ hist' = Stepped(t, hist[t])
            /\ UNCHANGED signalled
    /\ UNCHANGED <<running_inference, alive, owner, dirs, bundles, loc,
                   lastCall, serial, now>>

\* A stop that waits again for as long as the worker is there.
StopWakeLooping(t) ==
    /\ pc[t] = "stop_sleep"
    /\ Goto(t, IF pid_exists(loc[t].pid) THEN "stop_sleep" ELSE "stop_del")
    /\ hist' = Stepped(t, [hist[t] EXCEPT
                 !.checked = @ \cup {loc[t].pid},
                 !.waits = @ + 1,
                 !.woke = IF pid_exists(loc[t].pid) THEN "alive" ELSE "dead"])
    /\ UNCHANGED <<running_inference, alive, owner, dirs, bundles, loc,
                   lastCall, serial, now, signalled>>

\* A stop that sends the forced kill without looking at the worker again.
StopWakeUnchecked(t) ==
    /\ pc[t] = "stop_sleep"
    /\ Goto(t, "stop_sigkill")
    /\ hist' = Stepped(t, [hist[t] EXCEPT !.waits = @ + 1])
    /\ UNCHANGED <<running_inference, alive, owner, dirs, bundles, loc,
                   lastCall, serial, now, signalled>>

\* lines 595-598: time.sleep(2) is over; if psutil.pid_exists(pid)
StopWake(t) ==
    /\ pc[t] = "stop_sleep"
    /\ Goto(t, IF pid_exists(loc[t].pid) THEN "stop_sigkill" ELSE "stop_del")
    /\ hist' = Stepped(t, [hist[t] EXCEPT
                 !.checked = @ \cup {loc[t].pid},
                 !.waits = @ + 1,
                 !.woke = IF pid_exists(loc[t].pid) THEN "alive" ELSE "dead"])
    /\ UNCHANGED <<running_inference, alive, owner, dirs, bundles, loc,
                   lastCall, serial, now, signalled>>

\* line 600: os.killpg(os.getpgid(pid), signal.SIGKILL).  The process table
\* may drop the pid at once or keep it (a process that cannot be killed yet,
\* or one nobody has waited for).
StopSigkill(t) ==
    /\ pc[t] = "stop_sigkill"
    /\ IF pid_exists(loc[t].pid)
       THEN /\ hist' = Stepped(t, [hist[t] EXCEPT !.sent = Append(@, "SIGKILL")])
            /\ \E dies \in BOOLEAN :
                 IF dies
                 THEN /\ alive' = alive \ {loc[t].pid}
                      /\ signalled' = signalled \ {loc[t].pid}
                 ELSE /\ signalled' = signalled \cup {loc[t].pid}
                      /\ UNCHANGED alive
       ELSE /\ hist' = Stepped(t, hist[t])
            /\ UNCHANGED <<alive, signalled>>
    /\ Goto(t, "stop_del")
    /\ UNCHANGED <<running_inference, owner, dirs, bundles, loc, lastCall,
                   serial, now>>

\* A stop that keeps the record of a worker the forced kill did not end.
StopDelIfGone(t) ==
    /\ pc[t] = "stop_del"
    /\ IF pid_exists(loc[t].pid)
       THEN /\ Respond(t, [NoRes EXCEPT !.status = "stopped"])
            /\ hist' = Stepped(t, hist[t])
            /\ UNCHANGED running_inference
       ELSE IF Has(loc[t].d)
       THEN /\ running_inference' = Without(running_inference, loc[t].d)
            /\ hist' = Stepped(t, [hist[t] EXCEPT !.removed =
                          @ \cup {running_inference[loc[t].d].pid}])
            /\ Respond(t, [NoRes EXCEPT !.status = "stopped"])
       ELSE /\ Raise(t)
            /\ hist' = Stepped(t, hist[t])
            /\ UNCHANGED running_inference
    /\ UNCHANGED <<alive, owner, dirs, bundles, loc, lastCall, serial, now, signalled>>

\* lines 604-610: del running_inference[dataset_id]; return stopped
StopDel(t) ==
    /\ pc[t] = "stop_del"
    /\ IF Has(loc[t].d)
       THEN /\ running_inference' = Without(running_inference, loc[t].d)
            /\ hist' = Stepped(t, [hist[t] EXCEPT !.removed =
                          @ \cup {running_inference[loc[t].d].pid}])
            /\ Respond(t, [NoRes EXCEPT !.status = "stopped"])
       ELSE /\ Raise(t)
            /\ hist' = Stepped(t, hist[t])
            /\ UNCHANGED running_inference
    /\ UNCHANGED <<alive, owner, dirs, bundles, loc, lastCall, serial, now, signalled>>

\* One statement of the stop handler on thread t.
StopStep(t) ==
    \/ StopIn(t) \/ StopInfo(t) \/ StopAlive(t) \/ StopReap(t)
    \/ StopSigint(t) \/ StopWake(t) \/ StopSigkill(t) \/ StopDel(t)

\* -------------------------------------------------- list_running_inference

\* A list that trusts the record: every recorded worker counts as running.
ListSeesAliveCached(pid) == pid \in Launched

\* line 632: if psutil.pid_exists(pid)
ListSeesAlive(pid) == pid_exists(pid)

\* The entries the iterator of line 630 has not yielded yet.
Unvisited(t) ==
    {d \in DOMAIN running_inference :
        running_inference[d].pid \notin loc[t].visited}

\* lines 630-640: one round of "for dataset_id, info in
\* running_inference.items()".  The iterator raises RuntimeError when the
\* dictionary's size is not the one it was created with; otherwise it yields
\* an entry it has not yielded, which goes to active or to dead_keys.
ListNext(t) ==
    /\ pc[t] = "list_next"
    /\ IF Cardinality(DOMAIN running_inference) # loc[t].used
       THEN /\ Raise(t)
            /\ UNCHANGED <<loc, hist>>
       ELSE IF Unvisited(t) = {}
       THEN /\ Goto(t, "list_clean")
            /\ UNCHANGED <<loc, hist>>
       ELSE \E d \in Unvisited(t) :
              LET pid == running_inference[d].pid IN
              /\ loc' = [loc EXCEPT
                   ![t].visited = @ \cup {pid},
                   ![t].active = IF ListSeesAlive(pid)
                                 THEN @ \cup {[dataset_id |-> d, pid |-> pid]}
                                 ELSE @,
                   ![t].dead_keys = IF ListSeesAlive(pid) THEN @ ELSE @ \cup {d}]
              /\ hist' = [hist EXCEPT ![t].checked = @ \cup {pid}]
              /\ UNCHANGED <<pc, res>>
    /\ UNCHANGED <<running_inference, alive, owner, dirs, bundles, lastCall,
                   serial, now, signalled>>

\* A list that returns the active list and leaves the dead keys in the
\* dictionary.
ListCleanSkipped(t) ==
    /\ pc[t] = "list_clean"
    /\ Respond(t, [NoRes EXCEPT !.status = "listed", !.list = loc[t].active])
    /\ UNCHANGED <<running_inference, alive, owner, dirs, bundles, loc, hist,
                   lastCall, serial, now, signalled>>

\* lines 643-649: for key in dead_keys: del running_inference[key]; then
\* return the active list.
ListClean(t) ==
    /\ pc[t] = "list_clean"
    /\ IF loc[t].dead_keys = {}
       THEN /\ Respond(t, [NoRes EXCEPT !.status = "listed",
                                        !.list = loc[t].active])
            /\ UNCHANGED <<running_inference, loc, hist>>
       ELSE \E k \in loc[t].dead_keys :
              IF Has(k)
              THEN /\ running_inference' = Without(running_inference, k)
                   /\ loc' = [loc EXCEPT ![t].dead_keys = @ \ {k}]
                   /\ hist' = [hist EXCEPT ![t].removed =
                                 @ \cup {running_inference[k].pid}]
                   /\ UNCHANGED <<pc, res>>
              ELSE /\ Raise(t)
                   /\ UNCHANGED <<running_inference, loc, hist>>
    /\ UNCHANGED <<alive, owner, dirs, bundles, lastCall, serial, now, signalled>>

\* ---------------------------------------------------------- delete_dataset

\* lines 298-301: if not os.path.exists(dataset_path): return 404
DeleteExists(t) ==
    /\ pc[t] = "delete_exists"
    /\ IF loc[t].d \in dirs
       THEN Goto(t, "delete_rmtree")
       ELSE Respond(t, [NoRes EXCEPT !.status = "dataset_not_found"])
    /\ UNCHANGED <<running_inference, alive, owner, dirs, bundles, loc, hist,
                   lastCall, serial, now, signalled>>

\* A delete that also drops the dataset's record from the registry.
DeleteRmtreePurging(t) ==
    /\ pc[t] = "delete_rmtree"
    /\ IF loc[t].d \in dirs
       THEN /\ dirs' = dirs \ {loc[t].d}
            /\ bundles' = bundles \ {loc[t].d}
            /\ running_inference' = Without(running_inference, loc[t].d)
            /\ Respond(t, [NoRes EXCEPT !.status = "deleted"])
       ELSE /\ Raise(t)
            /\ UNCHANGED <<dirs, bundles, running_inference>>
    /\ UNCHANGED <<alive, owner, loc, hist, lastCall, serial, now, signalled>>

\* lines 304-310: shutil.rmtree(dataset_path) (raises when the directory is
\* already gone); return "deleted"
DeleteRmtree(t) ==
    /\ pc[t] = "delete_rmtree"
    /\ IF loc[t].d \in dirs
       THEN /\ dirs' = dirs \ {loc[t].d}
            /\ bundles' = bundles \ {loc[t].d}
            /\ Respond(t, [NoRes EXCEPT !.status = "deleted"])
       ELSE /\ Raise(t)
            /\ UNCHANGED <<dirs, bundles>>
    /\ UNCHANGED <<running_inference, alive, owner, loc, hist, lastCall,
                   serial, now, signalled>>

\* -------------------------------------------------------- preprocess_images

\* line 112: f"dataset_{int(datetime.now().timestamp())}": the id is the
\* clock's whole second, written out
dataset_id(sec) == "d" \o ToString(sec)

\* lines 100-117: the request is checked (400 when a field is missing or the
\* image list is empty); the clock is read, at the second it showed last or a
\* later one, and gives the dataset id; os.makedirs(reference_path,
\* exist_ok=True) creates the directory or accepts the one that is there.
CreateId(t) ==
    /\ pc[t] = "create_id"
    /\ \E valid \in BOOLEAN, sec \in now..MaxClock :
         IF valid
         THEN /\ now' = sec
              /\ loc' = [loc EXCEPT ![t].d = dataset_id(sec)]
              /\ dirs' = dirs \cup {dataset_id(sec)}
              /\ Goto(t, "create_run")
         ELSE /\ Respond(t, [NoRes EXCEPT !.status = "bad_request"])
              /\ UNCHANGED <<now, loc, dirs>>
    /\ UNCHANGED <<running_inference, alive, owner, bundles, hist, lastCall,
                   serial, signalled>>

\* the clock second an id was made from
SecondOf(id) == CHOOSE sec \in 1..MaxClock : dataset_id(sec) = id

\* lines 119-192: the images and metadata.json are written into the
\* directory (open() raises when the directory has been deleted: "error",
\* 500), then the preprocessing script runs to its end (communicate).  It
\* writes the bundle into the dataset directory and exits 0 ("completed"),
\* exits non-zero ("failed", 500), runs over five minutes ("timeout", 504),
\* or cannot be spawned ("error", 500).  A script that completes has loaded
\* the detection model and gone through the images, and one that times out
\* has run for 300 seconds: the clock has left the second the id was made
\* from.  The clock stops after MaxClock; the run that takes it there waits
\* for the calls that have yet to read it.
CreateRun(t) ==
    /\ pc[t] = "create_run"
    /\ \E outcome \in {"completed", "failed", "timeout", "error"} :
         LET sec == SecondOf(loc[t].d)
             later == IF outcome \in {"completed", "timeout"} /\ now <= sec
                      THEN sec + 1
                      ELSE now
         IN  /\ (loc[t].d \notin dirs) => (outcome = "error")
             /\ (later > MaxClock) => \A u \in Threads : pc[u] # "create_id"
             /\ now' = later
             /\ bundles' = IF outcome = "completed"
                           THEN bundles \cup {loc[t].d}
                           ELSE bundles
             /\ Respond(t, [NoRes EXCEPT !.status = outcome])
    /\ UNCHANGED <<running_inference, alive, owner, dirs, loc, hist,
                   lastCall, serial, signalled>>

\* ------------------------------------------------------------------ system

Next ==
    \/ \E t \in Threads, o \in Ops, d \in Datasets \cup {"none"} : Request(t, o, d)
    \/ \E t \in Threads : Return(t)
    \/ \E p \in Launched : WorkerExit(p)
    \/ \E t \in Threads : StartIn(t)
    \/ \E t \in Threads : StartPid(t)
    \/ \E t \in Threads : StartAlive(t)
    \/ \E t \in Threads : StartDel(t)
    \/ \E t \in Threads : StartDir(t)
    \/ \E t \in Threads : StartBundle(t)
    \/ \E t \in Threads : StartOpen(t)
    \/ \E t \in Threads : StartPopen(t)
    \/ \E t \in Threads : StartPut(t)
    \/ \E t \in Threads : StatusIn(t)
    \/ \E t \in Threads : StatusInfo(t)
    \/ \E t \in Threads : StatusAlive(t)
    \/ \E t \in Threads : StatusDel(t)
    \/ \E t \in Threads : StatusSample(t)
    \/ \E t \in Threads : StopIn(t)
    \/ \E t \in Threads : StopInfo(t)
    \/ \E t \in Threads : StopAlive(t)
    \/ \E t \in Threads : StopReap(t)
    \/ \E t \in Threads : StopSigint(t)
    \/ \E t \in Threads : StopWake(t)
    \/ \E t \in Threads : StopSigkill(t)
    \/ \E t \in Threads : StopDel(t)
    \/ \E t \in Threads : ListNext(t)
    \/ \E t \in Threads : ListClean(t)
    \/ \E t \in Threads : DeleteExists(t)
    \/ \E t \in Threads : DeleteRmtree(t)
    \/ \E t \in Threads : CreateId(t)
    \/ \E t \in Threads : CreateRun(t)

Spec == Init /\ [][Next]_vars

SeqSpec == SeqInit /\ [][Next]_vars

\* ------------------------------------------------------------------ claims

Done(t, o) == pc[t] = "done" /\ loc[t].op = o

\* the workers launched for dataset d that are in the process table
LiveWorkers(d) == {p \in alive : owner[p] = d}

\* the call on thread t directly follows a returned call o on the same id
Follows(t, o) == hist[t].prev.op = o /\ hist[t].prev.d = loc[t].d

\* at the start of the call on thread t its dataset had no record, or a
\* record whose worker was gone
WasNotRunning(t) ==
    \/ loc[t].d \notin DOMAIN hist[t].reg0
    \/ hist[t].reg0[loc[t].d].pid \in hist[t].dead0

\* at the start of the call on thread t its dataset had a record whose
\* worker was gone
WasDead(t) ==
    /\ loc[t].d \in DOMAIN hist[t].reg0
    /\ hist[t].reg0[loc[t].d].pid \in hist[t].dead0

\* C1: two start calls for one dataset id that overlap in time never both
\* launch a worker process.
C1_SingleLaunch ==
    \A t, u \in Threads :
        (/\ t # u
         /\ loc[t].op = "start" /\ loc[u].op = "start"
         /\ loc[t].d = loc[u].d)
        => ~(hist[t].launched # {} /\ hist[u].launched # {})

\* C2: with requests served one at a time, a status call that directly
\* follows a returned stop call on the same id answers not_running, whatever
\* became of the worker.
C2_StatusAfterStop ==
    \A t \in Threads :
        (Done(t, "status") /\ Follows(t, "stop"))
        => res[t].status = "not_running"

\* C2 happens: status answers after a stop that sent both signals and whose
\* worker is still in the process table.
C2_Witness ==
    \E t \in Threads :
        /\ Done(t, "status") /\ Follows(t, "stop")
        /\ hist[t].prev.status = "stopped"
        /\ LiveWorkers(loc[t].d) # {}
        /\ res[t].status = "not_running"

\* C3 as stated: a start on an id whose bundle does not exist answers
\* bundle_not_found, launches nothing and inserts nothing, and a list that
\* follows has no entry for the id.
C3_Original ==
    /\ \A t \in Threads :
         (Done(t, "start") /\ loc[t].d \notin bundles)
         => /\ res[t].status = "bundle_not_found"
            /\ hist[t].launched = {}
            /\ hist[t].inserted = {}
    /\ \A t \in Threads :
         (Done(t, "list") /\ hist[t].prev.op = "start"
            /\ hist[t].prev.d \notin bundles)
         => \A e \in res[t].list : e.dataset_id # hist[t].prev.d

\* C3 amended: a start on an id whose bundle does not exist launches nothing
\* and inserts nothing.  It answers already_running (with the recorded pid)
\* only if the id had a record whose worker was alive; otherwise it answers
\* bundle_not_found when the dataset directory exists and dataset_not_found
\* when it does not, the id is left without a record, and a list that
\* follows has no entry for the id.
C3_Amended ==
    /\ \A t \in Threads :
         (Done(t, "start") /\ loc[t].d \notin bundles)
         => /\ hist[t].launched = {}
            /\ hist[t].inserted = {}
            /\ res[t].status \in {"already_running", "bundle_not_found",
                                  "dataset_not_found"}
            /\ res[t].status = "already_running"
               => /\ ~WasNotRunning(t)
                  /\ res[t].pid = hist[t].reg0[loc[t].d].pid
            /\ res[t].status # "already_running"
               => /\ (res[t].status = "bundle_not_found") <=> (loc[t].d \in dirs)
                  /\ ~Has(loc[t].d)
    /\ \A t \in Threads :
         (Done(t, "list") /\ hist[t].prev.op = "start"
            /\ hist[t].prev.status \in {"bundle_not_found", "dataset_not_found"})
         => \A e \in res[t].list : e.dataset_id # hist[t].prev.d

\* C3 happens: a list answers, with another dataset's worker in it, right
\* after a start that answered bundle_not_found.
C3_Witness ==
    \E t \in Threads :
        /\ Done(t, "list")
        /\ hist[t].prev.op = "start"
        /\ hist[t].prev.status = "bundle_not_found"
        /\ res[t].list # {}

\* C4: list returns no entry whose worker had exited when the call began,
\* and every entry it returns is one whose pid this call checked.
C4_ListOnlyAlive ==
    \A t \in Threads :
        Done(t, "list")
        => \A e \in res[t].list :
              /\ e.pid \notin hist[t].dead0
              /\ e.pid \in hist[t].checked

\* C4 happens: the registry held a record of an exited worker and one of a
\* live worker when list was called, and list answered with one entry.
C4_Witness ==
    \E t \in Threads :
        /\ Done(t, "list")
        /\ \E d \in DOMAIN hist[t].reg0 : hist[t].reg0[d].pid \in hist[t].dead0
        /\ Cardinality(res[t].list) = 1

\* C5 as stated: a stop on an id that is not running answers not_running or
\* already_stopped, leaves the registry as it was and sends no signal.
C5_Original ==
    \A t \in Threads :
        (Done(t, "stop") /\ WasNotRunning(t))
        => /\ res[t].status \in {"not_running", "already_stopped"}
           /\ running_inference = hist[t].reg0
           /\ hist[t].sent = <<>>

\* C5 amended: a stop on an id that is not running sends no signal and
\* leaves every other id's record as it was; with no record for the id it
\* answers not_running and the registry is unchanged, with a record of a dead
\* worker it answers already_stopped and that record is removed.
C5_Amended ==
    \A t \in Threads :
        (Done(t, "stop") /\ WasNotRunning(t))
        => /\ hist[t].sent = <<>>
           /\ running_inference = Without(hist[t].reg0, loc[t].d)
           /\ res[t].status = IF WasDead(t) THEN "already_stopped"
                                            ELSE "not_running"

\* C5 happens: a stop found the record of a dead worker, and another id's
\* record is in the registry.
C5_Witness ==
    \E t \in Threads :
        /\ Done(t, "stop") /\ WasDead(t)
        /\ res[t].status = "already_stopped"
        /\ DOMAIN running_inference # {}

\* C6: with requests served one at a time, when a stop on an id that had a
\* record returns, the registry has no record for that id.
C6_StopRemoves ==
    \A t \in Threads :
        (Done(t, "stop") /\ loc[t].d \in DOMAIN hist[t].reg0)
        => ~Has(loc[t].d)

\* C6 happens: stop sent both signals, the worker is still in the process
\* table, and the record is gone.
C6_Witness ==
    \E t \in Threads :
        /\ Done(t, "stop")
        /\ hist[t].sent = <<"SIGINT", "SIGKILL">>
        /\ pid_exists(loc[t].pid)
        /\ ~Has(loc[t].d)

\* C6 happens on the error path too: os.getpgid raised because the worker
\* exited after the liveness check, and the record is gone.
C6_WitnessError ==
    \E t \in Threads :
        /\ Done(t, "stop")
        /\ res[t].status = "stopped"
        /\ hist[t].sent = <<>>
        /\ ~Has(loc[t].d)

\* C7: with requests served one at a time, at most one worker launched for a
\* dataset id is alive.
C7_OneWorkerPerDataset ==
    \A d \in Datasets : Cardinality(LiveWorkers(d)) <= 1

\* C8: a call removes only records whose pid it has checked.
C8_RemovedIsChecked ==
    \A t \in Threads : hist[t].removed \subseteq hist[t].checked

C10_AlreadyRunning ==
    \A t \in Threads :
        (/\ Done(t, "start")
         /\ loc[t].d \in DOMAIN hist[t].reg0
         /\ pid_exists(hist[t].reg0[loc[t].d].pid))
        => /\ res[t].status = "already_running"
           /\ res[t].pid = hist[t].reg0[loc[t].d].pid
           /\ hist[t].launched = {}
           /\ running_inference = hist[t].reg0

\* C10 happens: a start answered already_running for a live worker.
C10_Witness ==
    \E t \in Threads :
        /\ Done(t, "start")
        /\ res[t].status = "already_running"
        /\ pid_exists(res[t].pid)
        /\ Has(loc[t].d)
\* C11: with requests served one at a time and the spawn not failing, a
\* start on an id with no record and its bundle in place launches exactly one
\* worker and records its positive pid, and the status call that directly
\* follows answers running with that pid while the worker is alive.
C11_StartLaunches ==
    /\ \A t \in Threads :
         (/\ Done(t, "start")
          /\ loc[t].d \notin DOMAIN hist[t].reg0
          /\ loc[t].d \in bundles
          /\ ~hist[t].spawnfail)
         => /\ res[t].status = "started"
            /\ Cardinality(hist[t].launched) = 1
            /\ res[t].pid > 0
            /\ res[t].pid \in hist[t].launched
            /\ Has(loc[t].d)
            /\ running_inference[loc[t].d].pid = res[t].pid
    /\ \A t \in Threads :
         (/\ Done(t, "status") /\ Follows(t, "start")
          /\ hist[t].prev.status = "started"
          /\ Has(loc[t].d)
          /\ pid_exists(running_inference[loc[t].d].pid))
         => /\ res[t].status = "running"
            /\ res[t].pid = running_inference[loc[t].d].pid

\* C12: a start with the bundle in place and no live record launches the
\* worker and records it even when the log file cannot be opened.
C12_LogFailureDoesNotBlock ==
    \A t \in Threads :
        (/\ Done(t, "start")
         /\ hist[t].logfail
         /\ loc[t].d \in bundles
         /\ WasNotRunning(t))
        => /\ res[t].status = "started"
           /\ hist[t].launched # {}
           /\ Has(loc[t].d)

\* C13: with requests served one at a time, a start whose spawn raised
\* answers an error, has called the spawn once, has launched nothing and
\* inserted nothing, and leaves its id without a record.
C13_SpawnFailure ==
    \A t \in Threads :
        (Done(t, "start") /\ hist[t].spawnfail)
        => /\ res[t].status = "error"
           /\ hist[t].popens = 1
           /\ hist[t].launched = {}
           /\ hist[t].inserted = {}
           /\ ~Has(loc[t].d)

\* C13 happens: a start whose spawn raised has answered, after it reaped the
\* record of the id's exited worker.
C13_Witness ==
    \E t \in Threads :
        /\ Done(t, "start") /\ hist[t].spawnfail
        /\ WasDead(t)
        /\ res[t].status = "error"

\* C14: in every interleaving a stop handler that has not answered can take
\* its next statement, it runs at most seven statements, waits at most once
\* and sends at most SIGINT and then SIGKILL; once it has answered, the
\* response can leave.
C14_StopTerminates ==
    \A t \in Threads :
        loc[t].op = "stop"
        => /\ IF pc[t] = "done" THEN ENABLED Return(t) ELSE ENABLED StopStep(t)
           /\ hist[t].steps <= 7
           /\ hist[t].waits <= 1
           /\ hist[t].sent \in {<<>>, <<"SIGINT">>, <<"SIGINT", "SIGKILL">>}

\* C14 happens: a stop has answered after seven statements, one wait and
\* both signals, its worker still in the process table.
C14_Witness ==
    \E t \in Threads :
        /\ Done(t, "stop")
        /\ hist[t].steps = 7
        /\ hist[t].waits = 1
        /\ hist[t].sent = <<"SIGINT", "SIGKILL">>
        /\ pid_exists(loc[t].pid)

\* C15: any two create calls that succeed return different dataset ids, so
\* an id names one dataset and no create writes into the directory of
\* another's.
C15_UniqueIds ==
    \A t, u \in Threads :
        (/\ t # u
         /\ Done(t, "create") /\ res[t].status = "completed"
         /\ Done(u, "create") /\ res[u].status = "completed")
        => loc[t].d # loc[u].d

\* the entries of the registry reg other than d's
Others(reg, d) == [x \in (DOMAIN reg) \ {d} |-> reg[x]]

\* C16: all through a start, stop or status call on dataset id d, the
\* registry entries of the other ids are the ones the call found, and the
\* only process the call signals is a worker launched for d.
C16_Independent ==
    \A t \in Threads :
        loc[t].op \in {"start", "stop", "status"}
        => /\ Others(running_inference, loc[t].d) = Others(hist[t].reg0, loc[t].d)
           /\ (hist[t].sent # <<>>) => owner[loc[t].pid] = loc[t].d

\* C16 happens: a stop has signalled the worker of its dataset and removed
\* the record, while another dataset has a record and a live worker.
C16_Witness ==
    \E t \in Threads :
        /\ Done(t, "stop")
        /\ res[t].status = "stopped"
        /\ hist[t].sent # <<>>
        /\ \E d \in DOMAIN running_inference :
             /\ d # loc[t].d
             /\ pid_exists(running_inference[d].pid)

\* C17: a stop sends SIGINT before anything else and is past line 592 only
\* with SIGINT sent; it sends SIGKILL only after its one wait and only when
\* the check after the wait found the worker in the process table; a worker
\* found gone after the wait has got SIGINT alone; a worker that is there to
\* the end has got SIGINT, then SIGKILL.
C17_Escalation ==
    \A t \in Threads :
        loc[t].op = "stop"
        => /\ hist[t].sent \in {<<>>, <<"SIGINT">>, <<"SIGINT", "SIGKILL">>}
           /\ (pc[t] \in {"stop_sleep", "stop_sigkill"})
                 => hist[t].sent = <<"SIGINT">>
           /\ (Len(hist[t].sent) = 2)
                 => hist[t].waits = 1 /\ hist[t].woke = "alive"
           /\ (hist[t].woke = "dead") => hist[t].sent = <<"SIGINT">>
           /\ (Done(t, "stop") /\ res[t].status = "stopped"
                 /\ pid_exists(loc[t].pid))
                 => hist[t].sent = <<"SIGINT", "SIGKILL">>

\* C17 happens: the worker exited during the wait, and the stop has answered
\* having sent SIGINT and nothing else.
C17_Witness ==
    \E t \in Threads :
        /\ Done(t, "stop")
        /\ res[t].status = "stopped"
        /\ hist[t].waits = 1
        /\ hist[t].woke = "dead"
        /\ hist[t].sent = <<"SIGINT">>

\* the registry as list returns it: one entry per record
Listed(reg) == {[dataset_id |-> d, pid |-> reg[d].pid] : d \in DOMAIN reg}

\* C18: when a list call that no other call overlaps has answered, the
\* registry holds exactly the entries in the response; each is a record the
\* call found, unchanged; a record whose worker was gone when the call began
\* has been removed, and a record whose worker is still there has been kept.
C18_ListReaps ==
    \A t \in Threads :
        Done(t, "list")
        => /\ res[t].status = "listed"
           /\ res[t].list = Listed(running_inference)
           /\ \A d \in DOMAIN running_inference :
                /\ d \in DOMAIN hist[t].reg0
                /\ running_inference[d] = hist[t].reg0[d]
                /\ running_inference[d].pid \notin hist[t].dead0
           /\ \A d \in DOMAIN hist[t].reg0 :
                pid_exists(hist[t].reg0[d].pid) => d \in DOMAIN running_inference

\* C18 happens: list found the record of a worker that was gone and the
\* record of a live worker; it has removed the first and answered with the
\* second, which is all the registry holds.
C18_Witness ==
    \E t \in Threads :
        /\ Done(t, "list")
        /\ Cardinality(DOMAIN hist[t].reg0) = 2
        /\ hist[t].removed # {}
        /\ Cardinality(res[t].list) = 1
        /\ \A e \in res[t].list : pid_exists(e.pid)

\* C19: whatever other calls run at the same time, a status call answers
\* not_running, running or stopped, never an error.
C19_StatusNeverErrors ==
    \A t \in Threads :
        Done(t, "status") => res[t].status \in {"not_running", "running", "stopped"}

\* C20: a status call that found the worker alive and whose cpu/memory
\* sampling then failed answers running with cpu and memory both 0 and the
\* pid of the record, not an error, and the registry is as the call found it.
C20_SamplingFailure ==
    \A t \in Threads :
        (Done(t, "status") /\ hist[t].samplefail)
        => /\ res[t].status = "running"
           /\ res[t].cpu = 0
           /\ res[t].mem = 0
           /\ res[t].pid = loc[t].pid
           /\ Has(loc[t].d)
           /\ running_inference[loc[t].d].pid = loc[t].pid
           /\ running_inference = hist[t].reg0

\* C20 happens: the worker passed the liveness check and exited before the
\* sampling, and status has answered running.
C20_Witness ==
    \E t \in Threads :
        /\ Done(t, "status")
        /\ hist[t].samplefail
        /\ loc[t].pid \in hist[t].checked
        /\ ~pid_exists(loc[t].pid)
        /\ res[t].status = "running"

\* worker p has a registry record holding its pid
Tracked(p) == \E d \in DOMAIN running_inference : running_inference[d].pid = p

\* worker p has just been launched by a start that is about to insert its
\* record (between lines 475 and 486)
BeingRecorded(p) ==
    \E t \in Threads : pc[t] = "start_put" /\ loc[t].pid = p

\* C21: in every state and every interleaving, each live worker that a start
\* has launched and finished recording either has a registry record holding
\* its pid or has been sent a signal by a stop call.
C21_NoUntrackedWorker ==
    \A p \in alive : Tracked(p) \/ p \in signalled \/ BeingRecorded(p)

\* the call on thread t directly follows a delete that removed its dataset,
\* and the dataset's recorded worker is in the process table
AfterDeleteOfRunning(t) ==
    /\ Follows(t, "delete")
    /\ hist[t].prev.status = "deleted"
    /\ loc[t].d \in DOMAIN hist[t].reg0
    /\ pid_exists(hist[t].reg0[loc[t].d].pid)

\* C22: all through a delete call the registry is the one the call found and
\* the call sends no signal and removes no record; a status that follows the
\* delete of a dataset whose worker is alive answers running with the
\* worker's pid, and a start that follows it answers already_running, not
\* dataset_not_found, and leaves the registry as it was.
C22_DeleteKeepsJob ==
    \A t \in Threads :
        /\ (loc[t].op = "delete")
             => /\ running_inference = hist[t].reg0
                /\ hist[t].sent = <<>>
                /\ hist[t].removed = {}
        /\ (Done(t, "status") /\ AfterDeleteOfRunning(t))
             => /\ res[t].status = "running"
                /\ res[t].pid = hist[t].reg0[loc[t].d].pid
        /\ (Done(t, "start") /\ AfterDeleteOfRunning(t))
             => /\ res[t].status = "already_running"
                /\ res[t].pid = hist[t].reg0[loc[t].d].pid
                /\ running_inference = hist[t].reg0

\* C22 happens: the dataset of a live worker was deleted, its directory is
\* gone, and the start that followed has answered already_running.
C22_Witness ==
    \E t \in Threads :
        /\ Done(t, "start")
        /\ AfterDeleteOfRunning(t)
        /\ loc[t].d \notin dirs
        /\ res[t].status = "already_running"
====
